---------------------------- MODULE Spec2Model ----------------------------
(***************************************************************************)
(* Ingestion and rolling-history subsystem of the USDT/SDG P2P monitor.    *)
(*                                                                         *)
(*   data_processor.py      save_price_data, get_price_history,            *)
(*                          save_price_data_as_excel                       *)
(*   binance_api.py         fetch_binance_p2p_data, filter_offers,         *)
(*                          calculate_average_price,                       *)
(*                          fetch_latest_binance_data,                     *)
(*                          fetch_multi_asset_data                         *)
(*   scheduler.py           start_scheduler, scheduled_data_update,        *)
(*                          upload_hourly_to_drive                         *)
(*   google_drive.py        upload_price_history_to_drive,                 *)
(*                          upload_file_to_drive                           *)
(*   app.py                 /api/price-history, /api/download-excel        *)
(*                                                                         *)
(* The history file is the only shared mutable resource.  The scheduler's  *)
(* jobs run on pool threads, so every file-system call of a job is one     *)
(* step and steps of different threads interleave.                         *)
(***************************************************************************)
EXTENDS Integers, Sequences, FiniteSets, TLC

(***************************************************************************)
(* Bounds of the model.                                                    *)
(***************************************************************************)
MaxRuns == 1           \* runs of the 5-minute interval job that end before the last one starts
MaxInstances == 2      \* instances of one job that are explored
MaxClock == 2          \* seconds, numbered in order, in which a stamp is made
MaxSeqAppends == 200   \* appends of the sequential store exerciser
MaxFaults == 1         \* storage faults that are explored
MaxListings == 3       \* listings of one answer of the marketplace
MaxExports == 2        \* requests of /api/download-excel that are explored

(***************************************************************************)
(* Program constants.                                                      *)
(***************************************************************************)
MAX_RETAINED == 168    \* data_processor.py: history[-168:]
TOP_OFFERS == 5        \* binance_api.py: filtered_buy_offers[:5]
MIN_QUANTITY == 1000   \* binance_api.py: tradable_quantity > 1000
BUFFER_POINTS == 70    \* points that fill the 8192-byte buffer of open(.., 'w')
INTERVAL_MINUTES == 5  \* scheduler.py: IntervalTrigger(minutes=5)

VARIABLES
    history_file,   \* static/data/price_history.json
    clock,          \* datetime.now(): the wall-clock second, numbered in order
    workers,        \* the instances of the jobs, each on a pool thread
    fired,          \* firings of data_update_job that were submitted
    oneshot,        \* the 'date' jobs that have fired
    lastFailed,     \* how the last run whose save_price_data returned False ended
    lastRead,       \* the last /api/price-history answer
    excel_files,    \* files under excel_exports/
    h0,             \* the sequence persisted when the process started
    succeeded,      \* points whose save_price_data returned True, in order
    faults,         \* storage faults so far
    persisted,      \* the sequence of the last write that left a whole file
    failed,         \* jobs a run of which ended in its except clause
    call,           \* the call of a function that was made: name, arguments, result
    exports,        \* the requests of /api/download-excel so far, in order
    uploaded        \* what was sent to Google Drive, with what had been validated

vars == <<history_file, clock, workers, fired, oneshot, lastFailed,
          lastRead, excel_files, h0, succeeded, faults, persisted, failed,
          call, exports, uploaded>>

(***************************************************************************)
(* Sequences.                                                              *)
(***************************************************************************)
Min(a, b) == IF a < b THEN a ELSE b

Max(a, b) == IF a > b THEN a ELSE b

\* Python's s[:n] for n >= 0
Take(s, n) == SubSeq(s, 1, Min(n, Len(s)))

\* Python's s[-n:] for n > 0
Last(s, n) == SubSeq(s, Max(1, Len(s) - n + 1), Len(s))

(***************************************************************************)
(* Python floats.  The prices of this model lie in [512, 1024), where the  *)
(* doubles are the multiples of 2^-43; a float is the integer n of         *)
(* n * 2^-43, written with two limbs: n = hi * 2^27 + lo, 0 <= lo < 2^27.  *)
(* The sum of up to seven such prices and the difference of two of them    *)
(* are on this grid as well.  Every operation rounds to 53 significant     *)
(* bits, ties to even, as the processor does.                              *)
(***************************************************************************)
LIMB == 2^27

Float(hi, lo) == [hi |-> hi + (lo \div LIMB), lo |-> lo % LIMB]

\* the int 0 of `total_price = 0` and of `return 0`
Zero == [hi |-> 0, lo |-> 0]

\* the float of an int below 2^12
FromInt(n) == [hi |-> n * 2^16, lo |-> 0]

\* units of 2^-43 between neighbouring doubles of the binade of hi * 2^27
Quantum(hi) ==
    IF hi < 2^26 THEN 1 ELSE IF hi < 2^27 THEN 2 ELSE IF hi < 2^28 THEN 4 ELSE 8

\* the double nearest to (hi * 2^27 + lo + twice / (2 * k)) * 2^-43
RoundEven(hi, lo, twice, k) ==
    LET q == Quantum(hi)
        r == lo % q
        down == lo - r
        rest == 2 * (r * k) + twice
        up == \/ rest > q * k
              \/ rest = q * k /\ (down \div q) % 2 = 1
    IN  Float(hi, IF up THEN down + q ELSE down)

\* a + b
FAdd(a, b) ==
    LET s == Float(a.hi + b.hi, a.lo + b.lo) IN RoundEven(s.hi, s.lo, 0, 1)

\* a - b
FSub(a, b) ==
    LET s == Float(a.hi - b.hi, a.lo - b.lo) IN RoundEven(s.hi, s.lo, 0, 1)

\* a / k for an int k in 1..10
FDiv(a, k) ==
    LET t == (a.hi % k) * LIMB + a.lo
    IN  RoundEven(a.hi \div k, t \div k, 2 * (t % k), k)

\* a > b
FGreater(a, b) == a.hi > b.hi \/ (a.hi = b.hi /\ a.lo > b.lo)

\* The number texts of the JSON: a decimal with one digit after the point,
\* given in tenths ("600.1" is 6001), or a text that is no number.
Text(tenths) == [parses |-> TRUE, tenths |-> tenths]

NoNumber == [parses |-> FALSE, tenths |-> 0]

\* float(text) of a text that parses: the double nearest to tenths / 10
float(text) == FDiv([hi |-> text.tenths * 2^16, lo |-> 0], 10)

(***************************************************************************)
(* binance_api.py                                                          *)
(*                                                                         *)
(* A function that can raise is the record [raised, value] of its call.    *)
(***************************************************************************)
Raised == [raised |-> TRUE, value |-> <<>>]

Returned(value) == [raised |-> FALSE, value |-> value]

\* price and quantity in tenths
Listing(price, quantity, userType) ==
    [adv |-> [price |-> Text(price), tradableQuantity |-> Text(quantity)],
     advertiser |-> [userType |-> userType]]

\* a listing whose tradableQuantity is no number
ListingNoQuantity(price, userType) ==
    [adv |-> [price |-> Text(price), tradableQuantity |-> NoNumber],
     advertiser |-> [userType |-> userType]]

\* The answers of the marketplace to one fetch: a transport error, a body
\* without the data field, or a body with a data array.
Failure(kind) == [kind |-> kind, data |-> <<>>]

Data(listings) == [kind |-> "data", data |-> listings]

BuyListings ==
    << Listing(6000, 20000, "user"), Listing(6100, 500, "merchant"),
       Listing(5900, 10000, "user") >>

SellListings == << Listing(6200, 30000, "merchant"), Listing(6300, 10010, "user") >>

SmallListings == << Listing(5900, 10000, "user"), Listing(5800, 100, "user") >>

\* The markets that are explored: what the BUY fetch and the SELL fetch of one
\* run are answered.
Markets ==
    { [BUY |-> Data(BuyListings), SELL |-> Data(SellListings)],
      [BUY |-> Failure("no_data_field"), SELL |-> Data(SellListings)],
      [BUY |-> Data(SmallListings), SELL |-> Data(SellListings)],
      [BUY |-> Failure("RequestException"), SELL |-> Data(SellListings)],
      [BUY |-> Data(BuyListings), SELL |-> Failure("RequestException")] }

\* the markets that are explored where two runs interleave
SchedulerMarkets ==
    { [BUY |-> Data(BuyListings), SELL |-> Data(SellListings)],
      [BUY |-> Failure("RequestException"), SELL |-> Data(SellListings)],
      [BUY |-> Data(BuyListings), SELL |-> Failure("RequestException")] }

\* lines 39-51: a transport error or an error status is logged and raised
\* again; a body without the data field is logged and [] is returned
fetch_binance_p2p_data(response) ==
    IF response.kind = "RequestException" THEN Raised
    ELSE IF response.kind = "data" THEN Returned(response.data)
    ELSE Returned(<<>>)

\* line 72 with >= in place of >
Eligible_AtLeast(offer) ==
    \/ offer.advertiser.userType = "merchant"
    \/ ~FGreater(FromInt(MIN_QUANTITY), float(offer.adv.tradableQuantity))

\* line 72, for a listing whose quantity parses
Eligible(offer) ==
    \/ offer.advertiser.userType = "merchant"
    \/ FGreater(float(offer.adv.tradableQuantity), FromInt(MIN_QUANTITY))

\* lines 65-75: float() of line 70 is called for every listing, merchant or
\* not, and what it raises leaves the function
filter_offers(offers) ==
    IF \E i \in DOMAIN offers : ~offers[i].adv.tradableQuantity.parses
    THEN Raised
    ELSE Returned(SelectSeq(offers, Eligible))

\* lines 91-94: total_price = 0, then total_price += price, first to last
RECURSIVE SumPrices(_)
SumPrices(offers) ==
    IF offers = <<>> THEN Zero
    ELSE FAdd(SumPrices(SubSeq(offers, 1, Len(offers) - 1)),
              float(offers[Len(offers)].adv.price))

calculate_average_price(offers) ==
    IF offers = <<>> THEN Returned(Zero)
    ELSE IF \E i \in DOMAIN offers : ~offers[i].adv.price.parses THEN Raised
    ELSE Returned(FDiv(SumPrices(offers), Len(offers)))

FIAT == "SDG"

\* fetch_latest_binance_data that counts the offers of lines 134-135
fetch_latest_binance_data_CountsTop(asset, market, now) ==
    LET buy_offers == fetch_binance_p2p_data(market.BUY)
        sell_offers == fetch_binance_p2p_data(market.SELL)
        filtered_buy_offers == filter_offers(buy_offers.value)
        filtered_sell_offers == filter_offers(sell_offers.value)
        avg_buy_price == calculate_average_price(filtered_buy_offers.value)
        avg_sell_price == calculate_average_price(filtered_sell_offers.value)
    IN  IF \/ buy_offers.raised \/ sell_offers.raised
           \/ filtered_buy_offers.raised \/ filtered_sell_offers.raised
           \/ avg_buy_price.raised \/ avg_sell_price.raised
        THEN Raised
        ELSE Returned(
               [timestamp |-> now,
                asset |-> asset,
                fiat |-> FIAT,
                buy_price |-> avg_buy_price.value,
                sell_price |-> avg_sell_price.value,
                spread |-> FSub(avg_sell_price.value, avg_buy_price.value),
                buy_offers_count |->
                    Len(Take(filtered_buy_offers.value, TOP_OFFERS)),
                sell_offers_count |->
                    Len(Take(filtered_sell_offers.value, TOP_OFFERS)),
                buy_offers |-> Take(filtered_buy_offers.value, TOP_OFFERS),
                sell_offers |-> Take(filtered_sell_offers.value, TOP_OFFERS)])

\* fetch_latest_binance_data(asset): the two fetches, the two filters, the two
\* averages, the stamp
fetch_latest_binance_data(asset, market, now) ==
    LET buy_offers == fetch_binance_p2p_data(market.BUY)
        sell_offers == fetch_binance_p2p_data(market.SELL)
        filtered_buy_offers == filter_offers(buy_offers.value)
        filtered_sell_offers == filter_offers(sell_offers.value)
        avg_buy_price == calculate_average_price(filtered_buy_offers.value)
        avg_sell_price == calculate_average_price(filtered_sell_offers.value)
    IN  IF \/ buy_offers.raised \/ sell_offers.raised
           \/ filtered_buy_offers.raised \/ filtered_sell_offers.raised
           \/ avg_buy_price.raised \/ avg_sell_price.raised
        THEN Raised
        ELSE Returned(
               [timestamp |-> now,
                asset |-> asset,
                fiat |-> FIAT,
                buy_price |-> avg_buy_price.value,
                sell_price |-> avg_sell_price.value,
                spread |-> FSub(avg_sell_price.value, avg_buy_price.value),
                buy_offers_count |-> Len(filtered_buy_offers.value),
                sell_offers_count |-> Len(filtered_sell_offers.value),
                buy_offers |-> Take(filtered_buy_offers.value, TOP_OFFERS),
                sell_offers |-> Take(filtered_sell_offers.value, TOP_OFFERS)])

ASSETS == <<"USDT", "BTC", "ETH", "BNB">>

AssetSet == {ASSETS[i] : i \in DOMAIN ASSETS}

\* lines 161-172: the entry of an asset whose data could not be fetched
Placeholder(asset, timestamp) ==
    [timestamp |-> timestamp, asset |-> asset, fiat |-> FIAT,
     buy_price |-> Zero, sell_price |-> Zero, spread |-> Zero,
     buy_offers_count |-> 0, sell_offers_count |-> 0,
     buy_offers |-> <<>>, sell_offers |-> <<>>]

\* the loop body without its except clause: what an asset raises leaves it
MultiRaises_NoExcept(world, now) ==
    \E asset \in AssetSet :
        fetch_latest_binance_data(asset, world[asset], now).raised

\* lines 155-172: no exception leaves the loop body
MultiRaises(world, now) == FALSE

\* fetch_multi_asset_data: world is the market of each asset, now the second
\* of line 150, elapsed the seconds until the assets are fetched
fetch_multi_asset_data(world, now, elapsed) ==
    IF MultiRaises(world, now) THEN Raised
    ELSE Returned(
           [timestamp |-> now,
            assets_data |->
                [asset \in AssetSet |->
                    LET data == fetch_latest_binance_data(asset, world[asset],
                                                          now + elapsed)
                    IN  IF data.raised THEN Placeholder(asset, now)
                        ELSE data.value],
            primary_asset |-> "USDT"])

(***************************************************************************)
(* data_processor.py: the history file and the two store operations.       *)
(*                                                                         *)
(* exists  os.path.exists(HISTORY_FILE)                                    *)
(* whole   the text is one complete JSON array, so json.load accepts it    *)
(* data    the points of the text, from offset 0, that are complete        *)
(* size    length of the file, in points: text left behind by a longer     *)
(*         earlier write stays after a shorter one that did not truncate   *)
(***************************************************************************)
NoFile == [exists |-> FALSE, whole |-> FALSE, data |-> <<>>, size |-> 0]

WholeFile(points) ==
    [exists |-> TRUE, whole |-> TRUE, data |-> points, size |-> Len(points)]

\* json.load(f): the parsed array, or a JSONDecodeError
JsonLoad(f) ==
    IF f.whole THEN [raised |-> FALSE, value |-> f.data]
    ELSE [raised |-> TRUE, value |-> <<>>]

\* get_price_history without its except clause
get_price_history_NoExcept(f) ==
    IF f.exists THEN JsonLoad(f) ELSE [raised |-> FALSE, value |-> <<>>]

\* get_price_history: [raised, value]; raised is what leaves the function
get_price_history(f) ==
    IF f.exists
    THEN LET loaded == JsonLoad(f)
         IN  IF loaded.raised
             THEN [raised |-> FALSE, value |-> <<>>]     \* except Exception
             ELSE [raised |-> FALSE, value |-> loaded.value]
    ELSE [raised |-> FALSE, value |-> <<>>]

HistoryPoint(data) ==
    [timestamp |-> data.timestamp, buy_price |-> data.buy_price,
     sell_price |-> data.sell_price, spread |-> data.spread]

\* save_price_data without lines 44-45
AppendTrim_NoTrim(history, data) == Append(history, HistoryPoint(data))

\* save_price_data with history[:168] in line 45
AppendTrim_KeepFirst(history, data) ==
    Take(Append(history, HistoryPoint(data)), MAX_RETAINED)

\* save_price_data, lines 34-45: append the point, keep the last 168
AppendTrim(history, data) ==
    LET appended == Append(history, HistoryPoint(data))
    IN  IF Len(appended) > MAX_RETAINED
        THEN Last(appended, MAX_RETAINED)
        ELSE appended

\* open(HISTORY_FILE, 'w'): creates or truncates
Truncated == [exists |-> TRUE, whole |-> FALSE, data |-> <<>>, size |-> 0]

\* the buffer of the open file is written out at the writer's own offset
Flushed(f, points, n) ==
    [exists |-> TRUE, whole |-> FALSE, data |-> Take(points, n),
     size |-> Max(f.size, n)]

\* leaving the with block writes the rest; text of a longer concurrent write
\* that landed after this writer's truncation stays behind the array
Closed(f, points) ==
    [exists |-> TRUE, whole |-> f.size <= Len(points), data |-> points,
     size |-> Max(f.size, Len(points))]

(***************************************************************************)
(* scheduler.py: the jobs of start_scheduler and the pool threads.         *)
(***************************************************************************)
IntervalJob == "data_update_job"

InitialJob == "initial_data_update"

\* a caller of save_price_data that is no job of the scheduler
DirectCall == "save_price_data"

\* upload_hourly_to_drive under its two job ids
HourlyDriveJob == "hourly_drive_job"

InitialDriveJob == "initial_drive_job"

DriveJobs == {HourlyDriveJob, InitialDriveJob}

Jobs == {IntervalJob, InitialJob, DirectCall} \cup DriveJobs

\* where an instance of the job starts
Entry(job) == IF job \in DriveJobs THEN "upload" ELSE "fetch"

\* the pool never runs out of threads: every submitted instance gets one
Workers == Jobs \X (1..MaxInstances)

JobOf(w) == w[1]

IdleWorker ==
    [pc |-> "idle", latest_data |-> <<>>, history |-> <<>>, flushed |-> 0,
     before |-> NoFile, ret |-> "none", skipped |-> FALSE]

\* instances that are inside scheduled_data_update or save_price_data
Running(ws) == {w \in Workers : ws[w].pc # "idle"}

Instances(ws, job) == {w \in Running(ws) : JobOf(w) = job}

FreeWorker(ws, job) ==
    <<job, CHOOSE k \in 1..MaxInstances :
              /\ ws[<<job, k>>].pc = "idle"
              /\ \A l \in 1..(k - 1) : ws[<<job, l>>].pc # "idle">>

HasFreeWorker(ws, job) == \E k \in 1..MaxInstances : ws[<<job, k>>].pc = "idle"

\* add_job with no limit on the running instances
CanSubmit_Always(ws, job) == TRUE

\* add_job without max_instances: one running instance per job id
CanSubmit(ws, job) == Instances(ws, job) = {}

\* the process starts at 00:59:59: the hour field of the timestamp
\* "%Y-%m-%d %H:%M:%S" of second t
HourOf(t) == IF t < 2 THEN 0 ELSE 1

\* the persisted sequences this process can find when it starts: no file, or a
\* file left by an earlier process, one point per second before the start
Stored(n) ==
    [i \in 1..n |->
        [timestamp |-> i - n, buy_price |-> FromInt(603),
         sell_price |-> FromInt(605), spread |-> FromInt(2)]]

InitLengths == {MAX_RETAINED - 1}

InitFiles == {NoFile} \cup {WholeFile(Stored(n)) : n \in InitLengths}

\* no function has been called yet
NoCall == [fn |-> "none", args |-> <<>>, result |-> <<>>]

NoRead ==
    [done |-> FALSE, raised |-> FALSE, value |-> <<>>, file |-> NoFile,
     allowed |-> {}]

Init ==
    /\ history_file \in InitFiles
    /\ clock = 1
    /\ workers = [w \in Workers |-> IdleWorker]
    /\ fired = 0
    /\ oneshot = {}
    /\ lastFailed = "none"
    /\ lastRead = NoRead
    /\ excel_files = {}
    /\ h0 = history_file.data
    /\ succeeded = <<>>
    /\ faults = 0
    /\ persisted = history_file.data
    /\ failed = {}
    /\ call = NoCall
    /\ exports = <<>>
    /\ uploaded = {}

\* the executor starts the job on a pool thread
Submit(job) ==
    /\ HasFreeWorker(workers, job)
    /\ workers' = [workers EXCEPT ![FreeWorker(workers, job)].pc = Entry(job)]

\* a 'date' job that stays in the job store after its run
FireInitial_Again ==
    /\ CanSubmit(workers, InitialJob)
    /\ oneshot' = oneshot \cup {InitialJob}
    /\ Submit(InitialJob)
    /\ UNCHANGED <<history_file, clock, fired, lastFailed, lastRead, excel_files, h0,
                   succeeded, faults, persisted, failed, call,
                   exports, uploaded>>

\* the 'date' job without run_date: due at once, runs once
FireInitial ==
    /\ InitialJob \notin oneshot
    /\ oneshot' = oneshot \cup {InitialJob}
    /\ Submit(InitialJob)
    /\ UNCHANGED <<history_file, clock, fired, lastFailed, lastRead, excel_files, h0,
                   succeeded, faults, persisted, failed, call,
                   exports, uploaded>>

\* submitted runs of data_update_job that have ended
EndedRuns(ws, n) == n - Cardinality(Instances(ws, IntervalJob))

\* IntervalTrigger(minutes=5): a firing is submitted, or skipped while the job runs
FireInterval ==
    /\ InitialJob \in oneshot
    /\ \/ /\ CanSubmit(workers, IntervalJob)
          /\ EndedRuns(workers, fired) < MaxRuns
          /\ fired' = fired + 1
          /\ Submit(IntervalJob)
       \/ /\ ~CanSubmit(workers, IntervalJob)
          /\ workers' = [w \in Workers |->
                           IF w \in Instances(workers, IntervalJob)
                           THEN [workers[w] EXCEPT !.skipped = TRUE]
                           ELSE workers[w]]
          /\ UNCHANGED fired
    /\ UNCHANGED <<history_file, clock, oneshot, lastFailed, lastRead, excel_files, h0,
                   succeeded, faults, persisted, failed, call,
                   exports, uploaded>>

\* the 'date' job of upload_hourly_to_drive: due at once, runs once
FireInitialDrive ==
    /\ InitialDriveJob \notin oneshot
    /\ oneshot' = oneshot \cup {InitialDriveJob}
    /\ Submit(InitialDriveJob)
    /\ UNCHANGED <<history_file, clock, fired, lastFailed, lastRead, excel_files, h0,
                   succeeded, faults, persisted, failed, call,
                   exports, uploaded>>

\* the second t is minute 0, second 0 of an hour: 01:00:00
MinuteZero(t) == t = 2

\* the wall clock advances; CronTrigger(minute=0) fires hourly_drive_job when
\* the hour begins
TickCron ==
    /\ clock < MaxClock
    /\ clock' = clock + 1
    /\ IF MinuteZero(clock + 1) /\ CanSubmit(workers, HourlyDriveJob)
       THEN Submit(HourlyDriveJob)
       ELSE UNCHANGED workers
    /\ UNCHANGED <<history_file, fired, oneshot, lastFailed, lastRead, excel_files,
                   h0, succeeded, faults, persisted, failed, call,
                   exports, uploaded>>

\* the wall clock advances
Tick ==
    /\ clock < MaxClock
    /\ clock' = clock + 1
    /\ UNCHANGED <<history_file, workers, fired, oneshot, lastFailed,
                   lastRead, excel_files, h0, succeeded, faults, persisted, failed,
                   call,
                   exports, uploaded>>

(***************************************************************************)
(* scheduled_data_update, one step per call that other threads can see.    *)
(***************************************************************************)
\* the job function without its except clauses: the exception leaves it
Ended_Reraise(outcome) ==
    IF outcome = "error" THEN [IdleWorker EXCEPT !.pc = "raised"] ELSE IdleWorker

\* scheduler.py lines 44-47 and 67-70: every exception of a run is logged and
\* the job function returns, so the instance is over
Ended(outcome) == IdleWorker

\* the run ends: line 43 logs success, line 45 logs the error
Finish(w, saved, outcome) ==
    /\ workers' = [workers EXCEPT ![w] = Ended(outcome)]
    /\ lastFailed' = IF saved = "False" THEN outcome ELSE lastFailed
    /\ failed' = IF outcome = "error" THEN failed \cup {JobOf(w)} ELSE failed

\* lines 35-43, after save_price_data returned: its result is not looked at
AfterSave(w, saved) ==
    IF JobOf(w) # DirectCall /\ HourOf(workers[w].latest_data[1].timestamp) = 0
    THEN /\ workers' = [workers EXCEPT ![w].pc = "excel", ![w].history = <<>>,
                                       ![w].flushed = 0, ![w].before = NoFile,
                                       ![w].ret = saved]
         /\ UNCHANGED <<lastFailed, failed>>
    ELSE Finish(w, saved, "success")

\* a run that goes on with the placeholder of fetch_multi_asset_data when the
\* fetch raises
FetchLatest_Placeholder(w, markets) ==
    /\ workers[w].pc = "fetch"
    /\ \E market \in markets :
          LET latest_data == fetch_latest_binance_data("USDT", market, clock)
          IN  /\ workers' = [workers EXCEPT
                               ![w].latest_data =
                                   << IF latest_data.raised
                                      THEN Placeholder("USDT", clock)
                                      ELSE latest_data.value >>,
                               ![w].pc = "load"]
              /\ UNCHANGED <<lastFailed, failed>>
    /\ UNCHANGED <<history_file, clock, fired, oneshot, lastRead,
                   excel_files, h0, succeeded, faults, persisted, call,
                   exports, uploaded>>

\* fetch_latest_binance_data(): the BUY fetch, the SELL fetch, then filter,
\* average and stamp; either fetch can raise; a call that hangs stays here
FetchLatest(w, markets) ==
    /\ workers[w].pc = "fetch"
    /\ \E market \in markets :
          LET latest_data == fetch_latest_binance_data("USDT", market, clock)
          IN  IF latest_data.raised
              THEN Finish(w, "none", "error")
              ELSE /\ workers' = [workers EXCEPT
                                    ![w].latest_data = << latest_data.value >>,
                                    ![w].pc = "load"]
                   /\ UNCHANGED <<lastFailed, failed>>
    /\ UNCHANGED <<history_file, clock, fired, oneshot, lastRead,
                   excel_files, h0, succeeded, faults, persisted, call,
                   exports, uploaded>>

(***************************************************************************)
(* save_price_data, one step per file-system call.                         *)
(***************************************************************************)
\* lines 31-45: load, append, trim
SaveLoad(w) ==
    /\ workers[w].pc = "load"
    /\ workers' = [workers EXCEPT
                     ![w].history = AppendTrim(get_price_history(history_file).value,
                                               workers[w].latest_data[1]),
                     ![w].before = history_file,
                     ![w].pc = "open"]
    /\ UNCHANGED <<history_file, clock, fired, oneshot, lastFailed, lastRead,
                   excel_files, h0, succeeded, faults, persisted, failed, call,
                   exports, uploaded>>

\* line 48: open(HISTORY_FILE, 'w')
SaveOpen(w) ==
    /\ workers[w].pc = "open"
    /\ history_file' = Truncated
    /\ workers' = [workers EXCEPT ![w].pc = "dump"]
    /\ UNCHANGED <<clock, fired, oneshot, lastFailed, lastRead, excel_files,
                   h0, succeeded, faults, persisted, failed, call,
                   exports, uploaded>>

\* line 49: json.dump fills the buffer and the buffer is written out
SaveFlush(w) ==
    /\ workers[w].pc = "dump"
    /\ workers[w].flushed + BUFFER_POINTS < Len(workers[w].history)
    /\ history_file' = Flushed(history_file, workers[w].history,
                               workers[w].flushed + BUFFER_POINTS)
    /\ workers' = [workers EXCEPT ![w].flushed = @ + BUFFER_POINTS]
    /\ UNCHANGED <<clock, fired, oneshot, lastFailed, lastRead, excel_files,
                   h0, succeeded, faults, persisted, failed, call,
                   exports, uploaded>>

\* lines 48-52: the with block ends, the function returns True
SaveClose(w) ==
    /\ workers[w].pc = "dump"
    /\ workers[w].flushed + BUFFER_POINTS >= Len(workers[w].history)
    /\ history_file' = Closed(history_file, workers[w].history)
    /\ persisted' = IF history_file'.whole THEN workers[w].history ELSE persisted
    /\ succeeded' = Append(succeeded, HistoryPoint(workers[w].latest_data[1]))
    /\ AfterSave(w, "True")
    /\ UNCHANGED <<clock, fired, oneshot, lastRead, excel_files, h0,
                   faults, call,
                   exports, uploaded>>

\* lines 53-55: open or a write raises, the function returns False; the file
\* holds what the failed call left there
SaveFault(w) ==
    /\ workers[w].pc \in {"open", "dump"}
    /\ faults < MaxFaults
    /\ faults' = faults + 1
    /\ AfterSave(w, "False")
    /\ UNCHANGED <<history_file, clock, fired, oneshot, lastRead,
                   excel_files, h0, succeeded, persisted, call,
                   exports, uploaded>>

\* the value of request.args.get('period') when the query has no period
NoPeriod == "None"

\* save_price_data_as_excel(data, time_period).  Line 184, "from datetime import
\* datetime, timedelta", stands in the body of the function, so datetime is a
\* local name of the whole function, bound only when line 184 has run.  Line 90
\* reads datetime before that, whatever time_period is: UnboundLocalError,
\* which lines 255-257 log and raise again.  No line after 90 runs and no file
\* is written.
save_price_data_as_excel(data, time_period) == Raised

\* the files under excel_exports/ after a call that ended as export did
Written(files, export) ==
    IF export.raised THEN files ELSE files \cup {export.value.filepath}

\* scheduler.py lines 39-41: save_price_data_as_excel(latest_data) at midnight
DailyExcel(w) ==
    /\ workers[w].pc = "excel"
    /\ LET export == save_price_data_as_excel(workers[w].latest_data, NoPeriod)
       IN  /\ excel_files' = Written(excel_files, export)
           /\ Finish(w, workers[w].ret,
                     IF export.raised THEN "error" ELSE "success")
    /\ UNCHANGED <<history_file, clock, fired, oneshot, lastRead, h0,
                   succeeded, faults, persisted, call,
                   exports, uploaded>>

(***************************************************************************)
(* upload_hourly_to_drive and google_drive.py                              *)
(***************************************************************************)
\* what the import of google_drive, the credentials and the Drive API do with
\* one upload
DriveAnswers == {"uploaded", "None", "ImportError"}

\* google_drive.py lines 119-128: the file is there, is not empty, and parses
\* to a list that is not empty
Validated(f) ==
    /\ f.exists
    /\ f.size > 0
    /\ ~JsonLoad(f).raised
    /\ JsonLoad(f).value # <<>>

\* upload_file_to_drive, lines 53-103: the file that is at the path when the
\* function runs is sent, unless it is missing or empty (55-57), there are no
\* credentials (61-62) or the API raises (101-103)
upload_file_to_drive(f, drive) ==
    IF f.exists /\ f.size > 0 /\ drive = "uploaded"
    THEN Returned([whole |-> f.whole, data |-> f.data])
    ELSE Raised

\* scheduler.py lines 51-62 and google_drive.py lines 115-128: the import, then
\* the file is read and validated; the with block closes it again
DriveValidate(w) ==
    /\ workers[w].pc = "upload"
    /\ \E drive \in DriveAnswers :
          IF drive # "ImportError" /\ Validated(history_file)
          THEN /\ workers' = [workers EXCEPT
                                ![w].pc = "send",
                                ![w].history = JsonLoad(history_file).value]
               /\ UNCHANGED <<lastFailed, failed>>
          ELSE Finish(w, "none", "error")
    /\ UNCHANGED <<history_file, clock, fired, oneshot, lastRead, excel_files,
                   h0, succeeded, faults, persisted, call,
                   exports, uploaded>>

\* google_drive.py lines 131-137 and scheduler.py lines 63-66: the path is
\* handed to upload_file_to_drive, which opens the file again
DriveUpload(w) ==
    /\ workers[w].pc = "send"
    /\ \E drive \in DriveAnswers \ {"ImportError"} :
          LET result == upload_file_to_drive(history_file, drive)
          IN  /\ uploaded' = IF result.raised THEN uploaded
                             ELSE uploaded \cup {[validated |-> workers[w].history,
                                                  sent |-> result.value]}
              /\ Finish(w, "none", IF result.raised THEN "error" ELSE "success")
    /\ UNCHANGED <<history_file, clock, fired, oneshot, lastRead, excel_files,
                   h0, succeeded, faults, persisted, call,
                   exports>>

(***************************************************************************)
(* app.py: /api/price-history                                              *)
(***************************************************************************)
Writing(ws) == {w \in Workers : ws[w].pc = "dump"}

price_history ==
    /\ lastRead' = [done |-> TRUE,
                    raised |-> get_price_history(history_file).raised,
                    value |-> get_price_history(history_file).value,
                    file |-> history_file,
                    allowed |-> {persisted}
                                \cup {workers[w].history : w \in Writing(workers)}]
    /\ UNCHANGED <<history_file, clock, workers, fired, oneshot, lastFailed,
                   excel_files, h0, succeeded, faults, persisted, failed, call,
                   exports, uploaded>>

(***************************************************************************)
(* The scheduler with its two ingestion jobs.                              *)
(***************************************************************************)
Next ==
    \/ FireInitial
    \/ FireInterval
    \/ Tick
    \/ \E w \in Workers :
          \/ FetchLatest(w, SchedulerMarkets)
          \/ SaveLoad(w)
          \/ SaveOpen(w)
          \/ SaveFlush(w)
          \/ SaveClose(w)
          \/ DailyExcel(w)

Spec == Init /\ [][Next]_vars

(***************************************************************************)
(* One ingestion run with storage faults, and a reader of the history.     *)
(***************************************************************************)
NextStore ==
    \/ FireInitial
    \/ Tick
    \/ \E w \in Workers :
          \/ FetchLatest(w, Markets)
          \/ SaveLoad(w)
          \/ SaveOpen(w)
          \/ SaveFlush(w)
          \/ SaveClose(w)
          \/ SaveFault(w)
          \/ DailyExcel(w)
    \/ price_history

SpecStore == Init /\ [][NextStore]_vars

(***************************************************************************)
(* All four jobs of start_scheduler, with failing fetches, storage faults, *)
(* failing exports and failing uploads, in a process that starts with no   *)
(* history file.  The few points of such a history fit into the buffer of  *)
(* the open file, so no write of the buffer comes before the close.        *)
(***************************************************************************)
InitJobs == Init /\ history_file = NoFile

NextJobs ==
    \/ FireInitial
    \/ FireInterval
    \/ FireInitialDrive
    \/ TickCron
    \/ \E w \in Workers :
          \/ FetchLatest(w, SchedulerMarkets)
          \/ SaveLoad(w)
          \/ SaveOpen(w)
          \/ SaveClose(w)
          \/ SaveFault(w)
          \/ DailyExcel(w)
          \/ DriveValidate(w)
          \/ DriveUpload(w)

SpecJobs == InitJobs /\ [][NextJobs]_vars

(***************************************************************************)
(* The same jobs with what the scheduler and the pool guarantee: the       *)
(* scheduler thread submits every job that is due, time goes on, and the   *)
(* pool threads go on with the steps of their runs.  The marketplace fetch *)
(* is                                                                      *)
(* requests.post without a timeout (binance_api.py line 40): nothing       *)
(* guarantees that it returns, so FetchLatest is under no fairness.        *)
(* Storage faults are left to SpecJobs.                                    *)
(***************************************************************************)
LocalStep(w) ==
    \/ SaveLoad(w)
    \/ SaveOpen(w)
    \/ SaveClose(w)
    \/ DailyExcel(w)
    \/ DriveValidate(w)
    \/ DriveUpload(w)

Fairness ==
    /\ WF_vars(FireInitial)
    /\ WF_vars(FireInitialDrive)
    /\ WF_vars(FireInterval)
    /\ WF_vars(TickCron)
    /\ WF_vars(\E w \in Workers : LocalStep(w))

NextLive ==
    \/ FireInitial
    \/ FireInterval
    \/ FireInitialDrive
    \/ TickCron
    \/ \E w \in Workers :
          \/ FetchLatest(w, SchedulerMarkets)
          \/ LocalStep(w)

SpecLive == InitJobs /\ [][NextLive]_vars /\ Fairness

(***************************************************************************)
(* The functions of binance_api.py, each called once with one of the       *)
(* inputs below: they keep no state between calls.                         *)
(***************************************************************************)
ListingPool ==
    { Listing(6000, 20000, "user"), Listing(6100, 500, "merchant"),
      Listing(5900, 10000, "user"), Listing(6001, 10001, "user"),
      Listing(6002, 100, "merchant"), Listing(6003, 30000, "user"),
      ListingNoQuantity(6050, "merchant"), ListingNoQuantity(6050, "user") }

RECURSIVE SeqsUpTo(_, _)
SeqsUpTo(S, n) ==
    IF n = 0 THEN { <<>> }
    ELSE LET shorter == SeqsUpTo(S, n - 1)
         IN  shorter \cup {Append(l, x) : l \in shorter, x \in S}

ListingLists == SeqsUpTo(ListingPool, MaxListings)

\* seven listings, six of them eligible
ManyListings ==
    [i \in 1..7 |-> Listing(6000 + 10 * i, IF i = 3 THEN 10000 ELSE 20000, "user")]

Responses ==
    { Failure("RequestException"), Failure("no_data_field"),
      Data(BuyListings), Data(SellListings), Data(SmallListings),
      Data(ManyListings), Data(<< ListingNoQuantity(6050, "merchant") >>) }

ApiMarkets == [BUY : Responses, SELL : Responses]

WorldMarkets ==
    { [BUY |-> Data(BuyListings), SELL |-> Data(SellListings)],
      [BUY |-> Failure("RequestException"), SELL |-> Data(SellListings)],
      [BUY |-> Data(SellListings),
       SELL |-> Data(<< ListingNoQuantity(6050, "merchant") >>)] }

Worlds == [AssetSet -> WorldMarkets]

Call(fn, args, result) ==
    /\ call = NoCall
    /\ call' = [fn |-> fn, args |-> args, result |-> result]
    /\ UNCHANGED <<history_file, clock, workers, fired, oneshot, lastFailed, lastRead,
                   excel_files, h0, succeeded, faults, persisted, failed,
                   exports, uploaded>>

Call_fetch_binance_p2p_data ==
    \E response \in Responses :
        Call("fetch_binance_p2p_data", response, fetch_binance_p2p_data(response))

Call_filter_offers ==
    \E offers \in ListingLists :
        Call("filter_offers", offers, filter_offers(offers))

Call_calculate_average_price ==
    \E offers \in ListingLists :
        Call("calculate_average_price", offers, calculate_average_price(offers))

Call_fetch_latest_binance_data ==
    \E market \in ApiMarkets :
        Call("fetch_latest_binance_data", [market |-> market, now |-> clock],
             fetch_latest_binance_data("USDT", market, clock))

Call_fetch_multi_asset_data ==
    \E world \in Worlds, elapsed \in {0, 1} :
        Call("fetch_multi_asset_data",
             [world |-> world, now |-> clock, elapsed |-> elapsed],
             fetch_multi_asset_data(world, clock, elapsed))

NextApi ==
    \/ Tick
    \/ Call_fetch_binance_p2p_data
    \/ Call_filter_offers
    \/ Call_calculate_average_price
    \/ Call_fetch_latest_binance_data
    \/ Call_fetch_multi_asset_data

\* the functions of binance_api.py do not touch the store: it starts empty
InitApi == Init /\ history_file = NoFile

SpecApi == InitApi /\ [][NextApi]_vars

(***************************************************************************)
(* The store alone: save_price_data called again and again, one call at a  *)
(* time, with one point per second.                                        *)
(***************************************************************************)
SeqSnapshot(t) ==
    fetch_latest_binance_data(
        "USDT",
        [BUY |-> Data(<< Listing(6000, 20000, "user") >>),
         SELL |-> Data(<< Listing(6100, 500, "merchant") >>)],
        t).value

SeqWorker == <<DirectCall, 1>>

SeqCall ==
    /\ workers[SeqWorker].pc = "idle"
    /\ Len(succeeded) < MaxSeqAppends
    /\ workers' = [workers EXCEPT ![SeqWorker] =
                     [IdleWorker EXCEPT !.pc = "load",
                                        !.latest_data =
                                            << SeqSnapshot(Len(succeeded) + 1) >>]]
    /\ UNCHANGED <<history_file, clock, fired, oneshot, lastFailed, lastRead,
                   excel_files, h0, succeeded, faults, persisted, failed, call,
                   exports, uploaded>>

NextSeq ==
    \/ SeqCall
    \/ SaveLoad(SeqWorker)
    \/ SaveOpen(SeqWorker)
    \/ SaveFlush(SeqWorker)
    \/ SaveClose(SeqWorker)

SpecSeq == Init /\ [][NextSeq]_vars

(***************************************************************************)
(* The runs of data_update_job in the 24 hours after a first run, and the  *)
(* ones among them that call save_price_data_as_excel.  Minutes are        *)
(* counted from a midnight.                                                *)
(***************************************************************************)
MinutesOfDay == 24 * 60

\* scheduler.py line 38: the hour field of the timestamp of a run
current_hour(minute) == (minute \div 60) % 24

\* the minutes of the runs: one every 5 minutes
RunsOfDay(first) ==
    {first + INTERVAL_MINUTES * k : k \in 0..(MinutesOfDay \div INTERVAL_MINUTES - 1)}

\* scheduler.py lines 39-40: the runs that call save_price_data_as_excel
ExcelRuns(first) == {minute \in RunsOfDay(first) : current_hour(minute) = 0}

Call_scheduled_data_update ==
    \E first \in 0..(MinutesOfDay - 1) :
        Call("scheduled_data_update", first, ExcelRuns(first))

NextDay == Call_scheduled_data_update

SpecDay == InitApi /\ [][NextDay]_vars

(***************************************************************************)
(* /api/download-excel: requests for an export, one after the other.       *)
(***************************************************************************)
\* the periods save_price_data_as_excel knows
Windows == {"hour", "day", "month"}

\* app.py line 72: the period of the query string, which can be any text
Periods == {NoPeriod, "week"} \cup Windows

\* a route that also appends the snapshot of the request to the history
download_excel_Saves ==
    /\ Len(exports) < MaxExports
    /\ \E time_period \in Periods, market \in SchedulerMarkets :
          LET latest_data == fetch_latest_binance_data("USDT", market, clock)
              export == IF latest_data.raised THEN Raised
                        ELSE save_price_data_as_excel(latest_data.value, time_period)
          IN  /\ excel_files' = Written(excel_files, export)
              /\ history_file' =
                    IF latest_data.raised THEN history_file
                    ELSE WholeFile(AppendTrim(get_price_history(history_file).value,
                                              latest_data.value))
              /\ exports' = Append(exports,
                                [time_period |-> time_period,
                                 now |-> clock,
                                 called |-> ~latest_data.raised,
                                 export |-> export,
                                 status |-> IF export.raised THEN 500 ELSE 200])
    /\ UNCHANGED <<clock, workers, fired, oneshot, lastFailed, lastRead,
                   h0, succeeded, faults, persisted, failed, call, uploaded>>

\* app.py lines 66-100: one request.  called: save_price_data_as_excel was
\* reached; export: how it ended; status: the answer of the route
download_excel ==
    /\ Len(exports) < MaxExports
    /\ \E time_period \in Periods, market \in SchedulerMarkets :
          LET latest_data == fetch_latest_binance_data("USDT", market, clock)
              export == IF latest_data.raised THEN Raised
                        ELSE save_price_data_as_excel(latest_data.value, time_period)
          IN  /\ excel_files' = Written(excel_files, export)
              /\ exports' = Append(exports,
                                [time_period |-> time_period,
                                 now |-> clock,
                                 called |-> ~latest_data.raised,
                                 export |-> export,
                                 status |-> IF export.raised THEN 500 ELSE 200])
    /\ UNCHANGED <<history_file, clock, workers, fired, oneshot, lastFailed, lastRead,
                   h0, succeeded, faults, persisted, failed, call, uploaded>>

NextExcel ==
    \/ Tick
    \/ download_excel

SpecExcel == Init /\ [][NextExcel]_vars

(***************************************************************************)
(* Properties.                                                             *)
(***************************************************************************)
Occurrences(s, x) == Cardinality({i \in DOMAIN s : s[i] = x})

NonDecreasing(points) ==
    \A i \in 1..(Len(points) - 1) : points[i].timestamp <= points[i + 1].timestamp

\* instances that are between the first fetch and the return of save_price_data
FetchingOrAppending(ws) ==
    {w \in Workers : ws[w].pc \in {"fetch", "load", "open", "dump"}}

\* C1: in every reachable state, also while and after appends of two runs
\* interleave, the persisted history holds at most 168 points.
C1_AtMost168 == Len(history_file.data) <= MAX_RETAINED

\* two appends on a full history interleaved and returned: both loaded the
\* same sequence, so one point was evicted where two calls in a row evict two
C1_Witness ==
    /\ Len(succeeded) = 2
    /\ Running(workers) = {}
    /\ history_file.whole
    /\ Len(h0) = MAX_RETAINED - 1
    /\ history_file.data = Tail(h0) \o succeeded
    /\ Len(history_file.data) = MAX_RETAINED

\* C2: one append that is not interleaved with another leaves the last
\* min(len(h)+1, 168) elements of h followed by the point, oldest first; so
\* after any number of appends in a row (200 and more) the store holds the last
\* 168 of the sequence it started with followed by the appended points.
C2_AppendKeepsLast168 ==
    /\ workers[SeqWorker].pc = "idle" =>
          history_file.data =
              Last(h0 \o succeeded, Min(Len(h0) + Len(succeeded), MAX_RETAINED))
    /\ workers[SeqWorker].pc = "idle" /\ succeeded # <<>> => history_file.whole
    /\ workers[SeqWorker].pc \in {"open", "dump"} =>
          LET h == get_price_history(workers[SeqWorker].before).value
              p == HistoryPoint(workers[SeqWorker].latest_data[1])
          IN  /\ Len(workers[SeqWorker].history) = Min(Len(h) + 1, MAX_RETAINED)
              /\ workers[SeqWorker].history[Len(workers[SeqWorker].history)] = p
              /\ \A i \in 1..(Len(workers[SeqWorker].history) - 1) :
                    workers[SeqWorker].history[i] =
                        h[Len(h) - (Len(workers[SeqWorker].history) - 1) + i]

\* 200 points were appended to a store that had no file: the points 33..200
C2_Witness ==
    /\ h0 = <<>>
    /\ Len(succeeded) = 200
    /\ workers[SeqWorker].pc = "idle"
    /\ Len(history_file.data) = MAX_RETAINED
    /\ history_file.data[1].timestamp = 33
    /\ history_file.data[MAX_RETAINED].timestamp = 200

\* C3: no append is lost: when all runs have returned, every point whose
\* save_price_data returned True is in the persisted sequence, unless 168 or
\* more points were appended after it.
C3_NoAppendLost ==
    Running(workers) = {} =>
        \A i \in 1..Len(succeeded) :
            Len(succeeded) - i < MAX_RETAINED =>
                Occurrences(get_price_history(history_file).value, succeeded[i])
                    >= Occurrences(succeeded, succeeded[i])

\* C4: every read returns the sequence persisted before the append that is
\* under way, or the one that append is writing.
C4_ReadIsAtomic == lastRead.done => lastRead.value \in lastRead.allowed

\* C5: a failed append leaves the history file as it was when the call began.
C5_FailedAppendLeavesStore ==
    [][faults' > faults =>
          \E w \in Workers :
              /\ workers[w].pc \in {"open", "dump"}
              /\ workers'[w].pc \notin {"open", "dump"}
              /\ history_file' = workers[w].before]_vars

\* C6: a run of scheduled_data_update whose save_price_data returned False does
\* not end as a successful update.
C6_FailedAppendNotSuccess == lastFailed # "success"

\* C7: get_price_history never raises; it returns the persisted sequence when
\* the file is there and parses, and the empty sequence when there is no file
\* or the file does not parse.
C7_ReadAllNeverRaises ==
    lastRead.done =>
        /\ ~lastRead.raised
        /\ lastRead.value =
              IF lastRead.file.exists /\ lastRead.file.whole
              THEN lastRead.file.data
              ELSE <<>>

\* a failed write left a file that does not parse, no run is under way, and
\* the read of that file returned the empty sequence
C7_Witness ==
    /\ lastRead.done
    /\ lastRead.file = history_file
    /\ history_file.exists
    /\ ~history_file.whole
    /\ faults = 1
    /\ Running(workers) = {}
    /\ h0 # <<>>
    /\ lastRead.value = <<>>

\* C8: the persisted history is in non-decreasing timestamp order.
C8_NonDecreasing == NonDecreasing(history_file.data)

\* C9: no job has two instances running at the same time, and a firing of
\* data_update_job while its instance runs starts nothing.
C9_OneInstancePerJob ==
    /\ [](\A job \in Jobs : Cardinality(Instances(workers, job)) <= 1)
    /\ [][(\E w \in Workers : ~workers[w].skipped /\ workers'[w].skipped) =>
             /\ \A w \in Workers : workers'[w].pc = workers[w].pc
             /\ UNCHANGED <<history_file, fired, oneshot, succeeded>>]_vars

\* a firing of data_update_job was skipped while its instance was running
C9_Witness ==
    \E w \in Instances(workers, IntervalJob) :
        /\ workers[w].skipped
        /\ Cardinality(Instances(workers, IntervalJob)) = 1

\* C10: while one run of scheduled_data_update is between its fetch and the
\* return of save_price_data, no other run of it is.
C10_NoOverlappingRuns == Cardinality(FetchingOrAppending(workers)) <= 1

\* C11: a failure inside a run (a fetch, an append, an export or an upload
\* that raises) ends that run only: no exception leaves the job function, the
\* instance is over, and the scheduler goes on firing the jobs.
C11_FailuresIsolated ==
    \A w \in Workers :
        /\ workers[w].pc # "raised"
        /\ workers[w].pc = "idle" /\ JobOf(w) \in failed => workers[w] = IdleWorker

\* the first run of scheduled_data_update and the first run of
\* upload_hourly_to_drive ended in their except clauses, and the later firings
\* of data_update_job and of hourly_drive_job run
C11_Witness ==
    /\ {InitialJob, InitialDriveJob} \subseteq failed
    /\ \E w \in Instances(workers, IntervalJob) : workers[w].pc = "dump"
    /\ Instances(workers, HourlyDriveJob) # {}

\* the entry of an asset is what fetch_multi_asset_data puts there when every
\* other asset is answered well
AloneEntry(asset, args) ==
    fetch_multi_asset_data(
        [a \in AssetSet |->
            IF a = asset THEN args.world[a]
            ELSE [BUY |-> Data(BuyListings), SELL |-> Data(SellListings)]],
        args.now, args.elapsed).value.assets_data[asset]

FetchFails(market) ==
    market.BUY.kind = "RequestException" \/ market.SELL.kind = "RequestException"

\* C12: fetch_multi_asset_data never raises; its result has an entry for each
\* of the four assets; the entry of an asset whose fetch failed carries the
\* timestamp of the call, the asset, zero prices, zero counts and no offers;
\* the entry of any other asset is its own snapshot; and the entry of an asset
\* does not depend on what the other assets are answered.
C12_MultiNeverFails ==
    call.fn = "fetch_multi_asset_data" =>
        /\ ~call.result.raised
        /\ DOMAIN call.result.value.assets_data = AssetSet
        /\ \A asset \in AssetSet :
              LET entry == call.result.value.assets_data[asset]
                  own == fetch_latest_binance_data(
                             asset, call.args.world[asset],
                             call.args.now + call.args.elapsed)
              IN  /\ entry.asset = asset
                  /\ FetchFails(call.args.world[asset]) =>
                        /\ entry.timestamp = call.result.value.timestamp
                        /\ entry.buy_price = Zero /\ entry.sell_price = Zero
                        /\ entry.spread = Zero
                        /\ entry.buy_offers_count = 0
                        /\ entry.sell_offers_count = 0
                        /\ entry.buy_offers = <<>> /\ entry.sell_offers = <<>>
                  /\ ~own.raised => entry = own.value
                  /\ entry = AloneEntry(asset, call.args)

\* USDT was answered, the fetch of BTC failed: a snapshot and a placeholder
C12_Witness ==
    /\ call.fn = "fetch_multi_asset_data"
    /\ ~FetchFails(call.args.world["USDT"])
    /\ FetchFails(call.args.world["BTC"])
    /\ call.args.elapsed = 1
    /\ call.result.value.assets_data["USDT"].buy_offers_count = 2
    /\ call.result.value.assets_data["USDT"].timestamp = call.args.now + 1
    /\ call.result.value.assets_data["BTC"].buy_offers_count = 0
    /\ call.result.value.assets_data["BTC"].timestamp = call.args.now


\* C13: fetch_binance_p2p_data raises when the body of a successful answer has
\* no data field; it does not return an empty list for it.
C13_MissingDataRaises ==
    call.fn = "fetch_binance_p2p_data" /\ call.args.kind = "no_data_field" =>
        call.result.raised

\* the listings a filter has to keep: merchants, and quantities above 1000,
\* where a quantity that is no number counts as 0
Kept(offers) ==
    {i \in DOMAIN offers :
        \/ offers[i].advertiser.userType = "merchant"
        \/ /\ offers[i].adv.tradableQuantity.parses
           /\ offers[i].adv.tradableQuantity.tenths > 10 * MIN_QUANTITY}

\* r is the listings of offers at the places K, in the order of offers
IsSelection(r, offers, K) ==
    /\ Len(r) = Cardinality(K)
    /\ \E f \in [DOMAIN r -> DOMAIN offers] :
          /\ \A j, k \in DOMAIN r : j < k => f[j] < f[k]
          /\ {f[j] : j \in DOMAIN r} = K
          /\ \A j \in DOMAIN r : r[j] = offers[f[j]]

AllQuantitiesParse(offers) ==
    \A i \in DOMAIN offers : offers[i].adv.tradableQuantity.parses

\* C14: for every list of listings with numeric quantities filter_offers
\* returns the listings that are merchant or have a quantity above 1000, all of
\* them and no other, in the order of the input.
C14_FilterIsExact ==
    call.fn = "filter_offers" /\ AllQuantitiesParse(call.args) =>
        /\ ~call.result.raised
        /\ IsSelection(call.result.value, call.args, Kept(call.args))

\* a merchant with a small quantity is kept, a quantity of exactly 1000 is
\* dropped, a quantity of 1000.1 is kept
C14_Witness ==
    /\ call.fn = "filter_offers"
    /\ call.args = << Listing(6002, 100, "merchant"), Listing(5900, 10000, "user"),
                      Listing(6001, 10001, "user") >>
    /\ call.result.value = << Listing(6002, 100, "merchant"),
                              Listing(6001, 10001, "user") >>

\* C15: a quantity that is no number counts as 0 in filter_offers: the listing
\* is kept only if the advertiser is a merchant, and the other listings are
\* filtered as usual.
C15_BadQuantityIsZero ==
    call.fn = "filter_offers" /\ ~AllQuantitiesParse(call.args) =>
        /\ ~call.result.raised
        /\ IsSelection(call.result.value, call.args, Kept(call.args))

Reorderings(s) ==
    {[i \in DOMAIN s |-> s[p[i]]] : p \in Permutations(DOMAIN s)}

\* the same listings, each with the quantity 1
WithoutQuantities(offers) ==
    [i \in DOMAIN offers |->
        [offers[i] EXCEPT !.adv.tradableQuantity = Text(10)]]

\* C16: calculate_average_price returns 0 for no listings, a value that does
\* not depend on the quantities, the same value for every order of its input,
\* and 605 for the listings priced 600 and 610.
C16_AverageOrderFree ==
    call.fn = "calculate_average_price" =>
        /\ ~call.result.raised
        /\ call.args = <<>> => call.result.value = Zero
        /\ calculate_average_price(WithoutQuantities(call.args)) = call.result
        /\ call.args = << Listing(6000, 20000, "user"),
                          Listing(6100, 500, "merchant") >>
              => call.result.value = FromInt(605)
        /\ \A other \in Reorderings(call.args) :
              calculate_average_price(other) = call.result

Eligibles(response) == filter_offers(fetch_binance_p2p_data(response).value).value

\* C17: in a snapshot of fetch_latest_binance_data the spread is the average
\* sell price minus the average buy price, the averages and the counts are
\* those of all eligible listings of the side, and the offers are the first
\* min(5, count) eligible listings.
C17_SnapshotFields ==
    call.fn = "fetch_latest_binance_data" /\ ~call.result.raised =>
        LET data == call.result.value
            buy == Eligibles(call.args.market.BUY)
            sell == Eligibles(call.args.market.SELL)
        IN  /\ data.spread = FSub(data.sell_price, data.buy_price)
            /\ data.buy_price = calculate_average_price(buy).value
            /\ data.sell_price = calculate_average_price(sell).value
            /\ data.buy_offers_count = Len(buy)
            /\ data.sell_offers_count = Len(sell)
            /\ data.timestamp = call.args.now
            /\ Len(data.buy_offers) = Min(TOP_OFFERS, data.buy_offers_count)
            /\ Len(data.sell_offers) = Min(TOP_OFFERS, data.sell_offers_count)
            /\ \A i \in DOMAIN data.buy_offers : data.buy_offers[i] = buy[i]
            /\ \A i \in DOMAIN data.sell_offers : data.sell_offers[i] = sell[i]

\* six of seven BUY listings are eligible: the count is 6, five are listed,
\* and the spread is 625 minus the average of the six, which is above 20
C17_Witness ==
    /\ call.fn = "fetch_latest_binance_data"
    /\ call.args.market = [BUY |-> Data(ManyListings), SELL |-> Data(SellListings)]
    /\ call.result.value.buy_offers_count = 6
    /\ Len(call.result.value.buy_offers) = 5
    /\ call.result.value.sell_offers_count = 2
    /\ call.result.value.sell_price = FromInt(625)
    /\ call.result.value.spread = FSub(FromInt(625), call.result.value.buy_price)
    /\ FGreater(call.result.value.spread, FromInt(20))
    /\ FGreater(FromInt(21), call.result.value.spread)


\* the exports that were asked for: the requests that reached
\* save_price_data_as_excel
Asked == {i \in DOMAIN exports : exports[i].called}

\* seconds of the window of a period
WindowSeconds(time_period) ==
    IF time_period = "hour" THEN 60 * 60
    ELSE IF time_period = "day" THEN 24 * 60 * 60
    ELSE 30 * 24 * 60 * 60

\* a timestamp that parses is a second of the clock
Parses(timestamp) == timestamp \in Int

\* the points an export combines: the history and the snapshot of the request
CurrentInHistory(history, now) ==
    \E k \in DOMAIN history : history[k].timestamp = now

Rows(sheet) == {sheet[k] : k \in DOMAIN sheet}

Timestamps(sheet) == {sheet[k].timestamp : k \in DOMAIN sheet}

\* C18: the historical sheet of an export with a window (hour, day, month)
\* holds the combined points that are not older than the window at the time
\* of the request, and the points whose timestamp does not parse, and no
\* other point.
C18_WindowedSheet ==
    \A i \in Asked :
        exports[i].time_period \in Windows =>
            /\ ~exports[i].export.raised
            /\ LET history == get_price_history(history_file).value
                   now == exports[i].now
                   oldest == now - WindowSeconds(exports[i].time_period)
                   combined == Timestamps(history) \cup {now}
               IN  Timestamps(exports[i].export.value.sheet) =
                       {t \in combined : ~Parses(t) \/ t >= oldest}

\* C19: the historical sheet of an export has one row for the snapshot of the
\* request: none is added when the history holds a point with the same
\* timestamp, one is added when it holds none.
C19_NoDuplicateRow ==
    \A i \in Asked :
        /\ ~exports[i].export.raised
        /\ LET history == get_price_history(history_file).value
               sheet == exports[i].export.value.sheet
               now == exports[i].now
           IN  /\ Cardinality({k \in DOMAIN sheet : sheet[k].timestamp = now}) = 1
               /\ exports[i].time_period = NoPeriod =>
                     Len(sheet) = IF CurrentInHistory(history, now)
                                  THEN Len(history) ELSE Len(history) + 1

\* C20: every export that was asked for is written to a file of its own, also
\* two exports of the same period in the same second.
C20_ExportsNeverOverwritten ==
    /\ \A i \in Asked :
          /\ ~exports[i].export.raised
          /\ exports[i].export.value.filepath \in excel_files
    /\ \A i, j \in Asked :
          i # j => exports[i].export.value.filepath # exports[j].export.value.filepath


\* C27: what the backup sends to Google Drive is a whole, non-empty history,
\* and it is the sequence the backup validated before, also when an append
\* runs between the validation and the upload.
C27_UploadsWhatItValidated ==
    \A u \in uploaded :
        /\ u.validated # <<>>
        /\ u.sent.whole
        /\ u.sent.data = u.validated


StartJobs == {InitialJob, InitialDriveJob}

\* C21: after the start the ingestion job and the backup job each fire, once
\* and before the first recurring ingestion firing; the recurring triggers go
\* on firing (the interval, and minute 0 of the hour), and a recurring firing
\* that is not skipped has its run on a pool thread.
C21_StartAndRecurring ==
    /\ <>(/\ StartJobs \subseteq oneshot
          /\ fired >= 1
          /\ \E t \in 1..clock : MinuteZero(t))
    /\ [](fired >= 1 => InitialJob \in oneshot)
    /\ [][\A job \in StartJobs :
             job \in oneshot =>
                 Instances(workers', job) \subseteq Instances(workers, job)]_vars
    /\ [][fired' = fired + 1 =>
             Cardinality(Instances(workers', IntervalJob)) =
                 Cardinality(Instances(workers, IntervalJob)) + 1]_vars
    /\ [][/\ clock' # clock
          /\ MinuteZero(clock')
          /\ Instances(workers, HourlyDriveJob) = {}
          => Instances(workers', HourlyDriveJob) # {}]_vars

\* both start jobs have fired and ended, and a firing of each recurring job is
\* running
C21_Witness ==
    /\ StartJobs \subseteq oneshot
    /\ Instances(workers, InitialJob) = {}
    /\ Instances(workers, InitialDriveJob) = {}
    /\ fired >= 1
    /\ Instances(workers, IntervalJob) # {}
    /\ Instances(workers, HourlyDriveJob) # {}

IngestionJobs == {IntervalJob, InitialJob}

\* C22: every run of the ingestion function that was started ends, and its
\* instance is idle again.
C22_RunsEnd ==
    \A w \in Workers :
        JobOf(w) \in IngestionJobs =>
            (workers[w].pc # "idle" ~> workers[w].pc = "idle")


\* the points of the fetches that returned, for the markets of the scheduler
FetchedPoints ==
    {HistoryPoint(fetch_latest_binance_data("USDT", market, t).value) :
        market \in {m \in SchedulerMarkets :
                       ~fetch_latest_binance_data("USDT", m, 1).raised},
        t \in 1..MaxClock}

\* C23: a run whose fetch raises a transport error ends there: the step
\* leaves the history file and the appended points as they are and starts no
\* other fetch, and every point that is appended comes from a fetch that
\* returned.
C23_FailedFetchAppendsNothing ==
    /\ [][\A w \in Workers :
             workers[w].pc = "fetch" /\ workers'[w].pc = "idle" =>
                 /\ workers'[w] = IdleWorker
                 /\ UNCHANGED <<history_file, succeeded, persisted>>
                 /\ \A v \in Workers :
                       workers'[v].pc = "fetch" => workers[v].pc = "fetch"]_vars
    /\ [](\A k \in DOMAIN succeeded : succeeded[k] \in FetchedPoints)
    /\ [](\A w \in Workers :
             workers[w].pc \in {"load", "open", "dump"} =>
                 HistoryPoint(workers[w].latest_data[1]) \in FetchedPoints)

\* the run of initial_data_update ended at its failed fetch; nothing was
\* appended and the stored history is as it was
C23_Witness ==
    /\ InitialJob \in failed
    /\ Running(workers) = {}
    /\ succeeded = <<>>
    /\ history_file = WholeFile(h0)
    /\ Len(h0) = MAX_RETAINED - 1


\* C24: the 0 that calculate_average_price returns for no eligible listing is
\* no price: no point with a buy or sell price of 0 is appended to the
\* history or stands in the history file.
C24_NoZeroPriceStored ==
    /\ \A k \in DOMAIN succeeded :
          succeeded[k].buy_price # Zero /\ succeeded[k].sell_price # Zero
    /\ \A k \in DOMAIN history_file.data :
          /\ history_file.data[k].buy_price # Zero
          /\ history_file.data[k].sell_price # Zero


\* C25: of the runs of data_update_job in any 24 hours, one calls
\* save_price_data_as_excel.
C25_OneExportADay ==
    call.fn = "scheduled_data_update" => Cardinality(call.result) = 1


\* C26: a point leaves the history only by eviction: when no run is under
\* way, every point that was persisted (found at the start, or appended by a
\* call that returned True) is in the sequence a read returns, unless 168
\* points or more were persisted after it.
C26_OnlyEvictionRemoves ==
    Running(workers) = {} =>
        LET everPersisted == h0 \o succeeded
            kept == get_price_history(history_file).value
        IN  \A i \in DOMAIN everPersisted :
                Len(everPersisted) - i < MAX_RETAINED =>
                    \E k \in DOMAIN kept : kept[k] = everPersisted[i]


\* C28: an export whose period is none of hour, day, month is an export of
\* everything: the file is labelled complete and the historical sheet holds
\* every point of the history and the snapshot of the request.
C28_UnknownPeriodIsComplete ==
    \A i \in Asked :
        exports[i].time_period \notin Windows \cup {NoPeriod} =>
            /\ ~exports[i].export.raised
            /\ exports[i].export.value.filepath.label = "complete"
            /\ Timestamps(exports[i].export.value.sheet) =
                  Timestamps(get_price_history(history_file).value)
                      \cup {exports[i].now}

\* C29: a request for an export leaves the history file as it is: after any
\* number of requests the file is the one found at the start, and no point
\* was appended.
C29_ExportLeavesHistory ==
    /\ history_file \in InitFiles
    /\ history_file.data = h0
    /\ persisted = h0
    /\ succeeded = <<>>

\* two requests were made, the first reached save_price_data_as_excel, which
\* raised, and the 167 stored points are in the file
C29_Witness ==
    /\ Len(exports) >= 2
    /\ exports[1].called
    /\ exports[1].export.raised
    /\ exports[1].status = 500
    /\ history_file = WholeFile(Stored(MAX_RETAINED - 1))

=============================================================================
